---- MODULE Spec2Model ----
(***************************************************************************)
(* Model of SolarEnergy.cpp: the SolarOptimizer engine (efficiency         *)
(* calculator, historical efficiency map, maintenance alerts with expiry,  *)
(* environmental ledger) driven by the reading loop of main().             *)
(*                                                                         *)
(* A C++ double is modelled as an exact rational <<n, d>> in lowest terms  *)
(* with d > 0, extended with the IEEE-754 values a division by zero        *)
(* produces: <<1, 0>> is +inf, <<-1, 0>> is -inf and <<0, 0>> is NaN.      *)
(* Rounding error of binary floating point is not modelled.                *)
(* time_t is an integer number of seconds.                                 *)
(***************************************************************************)
EXTENDS Integers, Sequences, FiniteSets

VARIABLES
    now,                    \* what std::time(nullptr) returns
    pending,                \* the SolarReading constructed and not yet stored
                            \* (a sequence of at most one reading)
    db,                     \* MockDB::readings
    active_alerts,          \* SolarOptimizer::active_alerts
    historical_efficiency,  \* SolarOptimizer::historical_efficiency
    total_energy_produced,  \* EnvironmentalImpact::total_energy_produced
    last                    \* the most recent storeReading call: its reading,
                            \* the clock value it ran at, active_alerts, the
                            \* map and the total before it, and the alerts it
                            \* added; or that the call threw

vars == <<now, pending, db, active_alerts, historical_efficiency,
          total_energy_produced, last>>

---------------------------------------------------------------------------
(* double arithmetic *)

Abs(n) == IF n < 0 THEN -n ELSE n

Sign(n) == IF n < 0 THEN -1 ELSE IF n > 0 THEN 1 ELSE 0

RECURSIVE GCD(_, _)
GCD(a, b) == IF b = 0 THEN a ELSE GCD(b, a % b)

\* n/d as a double: lowest terms, positive denominator; d = 0 gives
\* +inf, -inf or NaN by the sign of n.
Norm(n, d) ==
    IF d = 0 THEN <<Sign(n), 0>>
    ELSE LET g == GCD(Abs(n), Abs(d))
             s == Sign(d)
         IN  <<(s * n) \div g, (s * d) \div g>>

R(n) == <<n, 1>>

NaN == <<0, 0>>
PosInf == <<1, 0>>
NegInf == <<-1, 0>>

IsNaN(x) == x = NaN

IsFinite(x) == x[2] # 0

RNeg(x) == <<-x[1], x[2]>>

RAdd(x, y) ==
    IF IsFinite(x) /\ IsFinite(y) THEN Norm(x[1] * y[2] + y[1] * x[2], x[2] * y[2])
    ELSE IF IsNaN(x) \/ IsNaN(y) THEN NaN
    ELSE IF IsFinite(y) THEN x
    ELSE IF IsFinite(x) THEN y
    ELSE IF x = y THEN x ELSE NaN

RSub(x, y) == RAdd(x, RNeg(y))

RMul(x, y) == Norm(x[1] * y[1], x[2] * y[2])

\* x / y; a zero divisor is +0.0 (the only zero the engine's sums produce),
\* so x / 0 is +inf, -inf or NaN by the sign of x.
RDiv(x, y) ==
    LET s == IF y[1] < 0 THEN -1 ELSE 1
    IN  Norm(s * x[1] * y[2], s * x[2] * y[1])

\* x > y; every comparison with NaN is false.
RGt(x, y) ==
    /\ ~IsNaN(x)
    /\ ~IsNaN(y)
    /\ IF x[2] = 0 /\ y[2] = 0 THEN x[1] > y[1]
       ELSE x[1] * y[2] > y[1] * x[2]

RLe(x, y) == ~IsNaN(x) /\ ~IsNaN(y) /\ ~RGt(x, y)

RMin(x, y) == IF RGt(x, y) THEN y ELSE x

INT_MAX == 2147483647

INT_MIN == -INT_MAX - 1

\* static_cast<int>(x): truncation toward zero; the conversion of a value
\* that is not finite is undefined, and builds yield INT_MIN, 0 or INT_MAX.
ToInt(x) ==
    IF IsFinite(x)
    THEN {IF x[1] >= 0 THEN x[1] \div x[2] ELSE -((-x[1]) \div x[2])}
    ELSE {INT_MIN, 0, INT_MAX}

---------------------------------------------------------------------------
(* constants of the program *)

PANEL_DEGRADATION_THRESHOLD == <<1, 20>>

TEMPERATURE_ALERT_THRESHOLD == <<70, 1>>

CO2_SAVINGS_PER_KWH == <<2, 5>>

TREES_EQUIVALENT_PER_KWH == <<1, 100>>

\* the size test of check_panel_degradation, off by one
MinHistoryOffByOne == 30 - 1

MinHistory == 30

SevenDays == 7 * 24 * 3600

ThirtyDays == 30 * 24 * 3600

---------------------------------------------------------------------------
(* bounds of the model *)

\* the clock value at construction of the optimizer
T0 == 1700000000

\* readings ingested in one run
MaxReadings == 31

\* sensor values of a run (the power and irradiance pair of a reading, or
\* its temperature) that differ from those of the Baseline reading
MaxVaried == 2

\* readings of a run that repeat the timestamp of an earlier reading
MaxDup == 1

\* runs of more than EarlyMax readings start with WarmUp Baseline readings
\* taken one second apart
EarlyMax == 1

WarmUp == 29

\* days of wall-clock time in one run, and the weeks of it after which the
\* clock no longer advances by seven days at once
MaxDays == 31

MaxWeeks == 1

\* the sensor values entered for a reading: <<power, irradiance>> pairs
\* and temperatures
PowerInputs ==
    { <<R(300), R(1000)>>,     \* nameplate conditions, efficiency 1
      <<R(150), R(1000)>>,     \* efficiency 1/2
      <<R(171), R(601)>>,      \* efficiency 570/601
      <<R(0), R(1000)>>,       \* no power
      <<R(300), R(0)>>,        \* no irradiance
      <<R(300), R(-1000)>>,    \* negative irradiance
      <<R(-300), R(1000)>> }   \* negative power

Temperatures == { R(70), <<701, 10>>, R(80), R(95) }

Baseline == [power_produced |-> R(300), irradiance |-> R(1000), temperature |-> R(70)]

\* the clock advances by one second, by seven days, or by 30 days and a second
Ticks == { 1, SevenDays, ThirtyDays + 1 }

---------------------------------------------------------------------------
(* SolarOptimizer *)

Range(f) == { f[x] : x \in DOMAIN f }

\* The sum of f[k] over k in S, as the loop sum += entry.second adds it up.
\* Addition of exact rationals does not depend on the order, so the entries
\* of equal value are added together, value by value of the set V.
RECURSIVE SumValues(_, _, _)
SumValues(f, S, V) ==
    IF V = {} THEN R(0)
    ELSE LET v == CHOOSE x \in V : TRUE
         IN  RAdd(RMul(R(Cardinality({ k \in S : f[k] = v })), v),
                  SumValues(f, S, V \ {v}))

SumOver(f, S) == SumValues(f, S, { f[k] : k \in S })

\* calculate_efficiency with the guard irradiance < 0
calculate_efficiency_strict(irradiance, power_output) ==
    IF RGt(R(0), irradiance) THEN R(0)
    ELSE LET expected_power == RMul(RDiv(irradiance, R(1000)), R(300))
         IN  RDiv(power_output, expected_power)

calculate_efficiency(irradiance, power_output) ==
    IF RLe(irradiance, R(0)) THEN R(0)
    ELSE LET expected_power == RMul(RDiv(irradiance, R(1000)), R(300))
         IN  RDiv(power_output, expected_power)

MaintenanceAlert(t, msg, sev, clock) ==
    [type |-> t, message |-> msg, timestamp |-> clock, severity |-> sev]

\* the write as std::map::insert, which keeps the value of a key present
RecordKeepFirst(hist, ts, eff) ==
    [k \in DOMAIN hist \cup {ts} |-> IF k \in DOMAIN hist THEN hist[k] ELSE eff]

\* historical_efficiency[reading.timestamp] = current_efficiency
Record(hist, ts, eff) ==
    [k \in DOMAIN hist \cup {ts} |-> IF k = ts THEN eff ELSE hist[k]]

\* the window without the reading's own point: entry.first < reading.timestamp
WindowPreceding(hist, ts) ==
    { k \in DOMAIN hist : k >= ts - ThirtyDays /\ k < ts }

\* the entries of the map the loop of check_panel_degradation adds up
Window(hist, ts) ==
    { k \in DOMAIN hist : k >= ts - ThirtyDays /\ k <= ts }

\* double degradation = 1.0 - (current_efficiency / avg_efficiency)
Degradation(current_efficiency, avg_efficiency) ==
    RSub(R(1), RDiv(current_efficiency, avg_efficiency))

\* the threshold test with >= for >
IsDegradedInclusive(degradation) ==
    ~IsNaN(degradation) /\ ~RGt(PANEL_DEGRADATION_THRESHOLD, degradation)

\* degradation > PANEL_DEGRADATION_THRESHOLD
IsDegraded(degradation) == RGt(degradation, PANEL_DEGRADATION_THRESHOLD)

\* The possible results <<historical_efficiency, active_alerts>> of
\* check_panel_degradation(reading) run at wall-clock time clock.
check_panel_degradation(reading, hist, alerts, clock) ==
    LET current_efficiency ==
            calculate_efficiency(reading.irradiance, reading.power_produced)
        hist2 == Record(hist, reading.timestamp, current_efficiency)
        win == Window(hist2, reading.timestamp)
        sum == SumOver(hist2, win)
        count == Cardinality(win)
        avg_efficiency == RDiv(sum, R(count))
        degradation == Degradation(current_efficiency, avg_efficiency)
    IN  IF Cardinality(DOMAIN hist2) < MinHistory THEN { <<hist2, alerts>> }
        ELSE IF count = 0 THEN { <<hist2, alerts>> }
        ELSE IF IsDegraded(degradation)
        THEN { <<hist2,
                 Append(alerts,
                        MaintenanceAlert("PANEL_DEGRADATION",
                                         <<"Panel degradation detected: ", pct,
                                           "% performance loss">>,
                                         RDiv(degradation, PANEL_DEGRADATION_THRESHOLD),
                                         clock))>> :
               pct \in ToInt(RMul(degradation, R(100))) }
        ELSE { <<hist2, alerts>> }

\* check_temperature_issues without the std::min clamp
check_temperature_issues_unclamped(reading, alerts, clock) ==
    IF RGt(reading.temperature, TEMPERATURE_ALERT_THRESHOLD)
    THEN LET severity ==
                 RDiv(RSub(reading.temperature, TEMPERATURE_ALERT_THRESHOLD), R(10))
         IN  { Append(alerts,
                      MaintenanceAlert("HIGH_TEMPERATURE",
                                       <<"High panel temperature: ", deg, "C">>,
                                       severity, clock)) :
               deg \in ToInt(reading.temperature) }
    ELSE { alerts }

\* check_temperature_issues updating nothing when a HighTemperature alert
\* is already in the vector
check_temperature_issues_dedup(reading, alerts, clock) ==
    IF \E i \in DOMAIN alerts : alerts[i].type = "HIGH_TEMPERATURE" THEN { alerts }
    ELSE check_temperature_issues_unclamped(reading, alerts, clock)

\* check_temperature_issues skipped when the degradation rule has just
\* added its alert (one alert per evaluation)
check_temperature_issues_exclusive(reading, alerts, clock) ==
    IF \E i \in DOMAIN alerts :
           alerts[i].type = "PANEL_DEGRADATION" /\ alerts[i].timestamp = clock
    THEN { alerts }
    ELSE IF RGt(reading.temperature, TEMPERATURE_ALERT_THRESHOLD)
    THEN { Append(alerts,
                  MaintenanceAlert("HIGH_TEMPERATURE",
                                   <<"High panel temperature: ", deg, "C">>,
                                   RMin(RDiv(RSub(reading.temperature,
                                                  TEMPERATURE_ALERT_THRESHOLD), R(10)),
                                        R(1)),
                                   clock)) :
           deg \in ToInt(reading.temperature) }
    ELSE { alerts }

check_temperature_issues(reading, alerts, clock) ==
    IF RGt(reading.temperature, TEMPERATURE_ALERT_THRESHOLD)
    THEN LET severity ==
                 RMin(RDiv(RSub(reading.temperature, TEMPERATURE_ALERT_THRESHOLD), R(10)),
                      R(1))
         IN  { Append(alerts,
                      MaintenanceAlert("HIGH_TEMPERATURE",
                                       <<"High panel temperature: ", deg, "C">>,
                                       severity, clock)) :
               deg \in ToInt(reading.temperature) }
    ELSE { alerts }

\* the erase with alert.timestamp <= week_ago for <
ClearOldInclusive(alerts, clock) ==
    LET week_ago == clock - SevenDays
    IN  SelectSeq(alerts, LAMBDA alert : ~(alert.timestamp <= week_ago))

\* std::remove_if over active_alerts: the alerts the erase keeps, in order
ClearOld(alerts, clock) ==
    LET week_ago == clock - SevenDays
    IN  SelectSeq(alerts, LAMBDA alert : ~(alert.timestamp < week_ago))

\* performMaintenanceChecks with the two rules in the opposite order
performMaintenanceChecks_TempFirst(reading, hist, alerts, clock) ==
    UNION { check_panel_degradation(reading, hist, a, clock) :
            a \in check_temperature_issues(reading, ClearOld(alerts, clock), clock) }

\* performMaintenanceChecks with the expiry taken from the reading's timestamp
performMaintenanceChecks_ReadingTime(reading, hist, alerts, clock) ==
    UNION { { <<pd[1], a>> : a \in check_temperature_issues(reading, pd[2], clock) } :
            pd \in check_panel_degradation(reading, hist,
                                           ClearOld(alerts, reading.timestamp), clock) }

\* The possible results <<historical_efficiency, active_alerts>> of
\* performMaintenanceChecks(reading) run at wall-clock time clock.
performMaintenanceChecks(reading, hist, alerts, clock) ==
    UNION { { <<pd[1], a>> : a \in check_temperature_issues(reading, pd[2], clock) } :
            pd \in check_panel_degradation(reading, hist, ClearOld(alerts, clock), clock) }

(* EnvironmentalImpact *)

\* addEnergy without the conversion to kWh
addEnergyWattHours(total, watts, hours) == RAdd(total, RMul(watts, hours))

addEnergy(total, watts, hours) == RAdd(total, RDiv(RMul(watts, hours), R(1000)))

getCO2Savings(total) == RMul(total, CO2_SAVINGS_PER_KWH)

getTreeEquivalents(total) == RMul(total, TREES_EQUIVALENT_PER_KWH)

---------------------------------------------------------------------------
(* the run: main() constructs the optimizer, then constructs and stores   *)
(* readings while the clock advances, and queries the reports             *)

Init ==
    /\ now = T0
    /\ pending = <<>>
    /\ db = <<>>
    /\ active_alerts = <<>>
    /\ historical_efficiency = <<>>
    /\ total_energy_produced = R(0)
    /\ last = [op |-> "construct"]

IsBaseline(r) ==
    /\ r.power_produced = Baseline.power_produced
    /\ r.irradiance = Baseline.irradiance
    /\ r.temperature = Baseline.temperature

VariedIn(r) ==
    (IF r.power_produced = Baseline.power_produced /\ r.irradiance = Baseline.irradiance
     THEN 0 ELSE 1)
    + (IF r.temperature = Baseline.temperature THEN 0 ELSE 1)

Varied(s) ==
    Cardinality({ i \in DOMAIN s : VariedIn(s[i]) >= 1 })
    + Cardinality({ i \in DOMAIN s : VariedIn(s[i]) >= 2 })

Canon(s, n) ==
    \A i \in 1..n : IsBaseline(s[i]) /\ s[i].timestamp = T0 + (i - 1)

\* the bound on the readings a run enumerates
Admitted(r) ==
    LET n == Len(db)
    IN  /\ n < MaxReadings
        /\ Varied(db) + VariedIn(r) <= MaxVaried
        /\ (\E i \in 1..n : db[i].timestamp = r.timestamp)
               => n - Cardinality(DOMAIN historical_efficiency) < MaxDup
        /\ \/ n < EarlyMax
           \/ /\ Canon(db, IF n < WarmUp THEN n ELSE WarmUp)
              /\ n < WarmUp => IsBaseline(r) /\ r.timestamp = T0 + n

\* main() is running: no exception has left storeReading (main catches
\* none, so an exception ends the run)
Running == last.op # "storeReading threw"

\* SolarReading reading(prod, cons, soc, irr, temp, volt, curr): the fields
\* the optimizer reads, stamped with the time of construction.
SolarReading(prod, irr, temp) ==
    LET r == [timestamp |-> now, power_produced |-> prod,
              irradiance |-> irr, temperature |-> temp]
    IN  /\ Running
        /\ pending = <<>>
        /\ Admitted(r)
        /\ pending' = <<r>>
        /\ UNCHANGED <<now, db, active_alerts, historical_efficiency,
                       total_energy_produced, last>>

\* optimizer.storeReading(reading)
storeReading ==
    /\ Running
    /\ pending # <<>>
    /\ LET reading == pending[1]
       IN  /\ db' = Append(db, reading)
           /\ total_energy_produced' = addEnergy(total_energy_produced, reading.power_produced, R(1))
           /\ \E out \in performMaintenanceChecks(reading, historical_efficiency,
                                                  active_alerts, now) :
                 /\ historical_efficiency' = out[1]
                 /\ active_alerts' = out[2]
                 /\ last' = [op |-> "storeReading", at |-> now, reading |-> reading,
                             alerts_before |-> active_alerts,
                             hist_before |-> historical_efficiency,
                             total_before |-> total_energy_produced,
                             emitted |-> SubSeq(out[2], Len(ClearOld(active_alerts, now)) + 1, Len(out[2]))]
    /\ pending' = <<>>
    /\ UNCHANGED now

\* storeReading with the ledger update ahead of db->storeReading
MembersWhenStoreThrowsLate(reading, hist, alerts, total) ==
    <<hist, alerts, addEnergy(total, reading.power_produced, R(1))>>

\* The members <<historical_efficiency, active_alerts, total_energy_produced>>
\* when db->storeReading(reading), the first statement of storeReading,
\* throws: the exception leaves storeReading before addEnergy and
\* performMaintenanceChecks run.
MembersWhenStoreThrows(reading, hist, alerts, total) == <<hist, alerts, total>>

\* optimizer.storeReading(reading) when db->storeReading(reading) throws
\* (push_back of MockDB failing leaves MockDB::readings as it was): the
\* exception reaches main, which unwinds and destroys the reading
storeReadingThrows ==
    /\ Running
    /\ pending # <<>>
    /\ LET m == MembersWhenStoreThrows(pending[1], historical_efficiency,
                                       active_alerts, total_energy_produced)
       IN  /\ historical_efficiency' = m[1]
           /\ active_alerts' = m[2]
           /\ total_energy_produced' = m[3]
    /\ last' = [op |-> "storeReading threw",
                alerts_before |-> active_alerts,
                hist_before |-> historical_efficiency,
                total_before |-> total_energy_produced]
    /\ pending' = <<>>
    /\ UNCHANGED <<now, db>>

\* what printMaintenanceAlerts() writes: the alerts of the vector, in order
\* (the empty sequence stands for "No active maintenance alerts")
PrintedAlerts(alerts) == alerts

\* what generateReport() writes: the total, the CO2 savings, the trees
ReportedImpact(total) == <<total, getCO2Savings(total), getTreeEquivalents(total)>>

\* printMaintenanceAlerts clearing the old alerts before it prints
printMaintenanceAlertsExpiring ==
    /\ Running
    /\ active_alerts' = ClearOld(active_alerts, now)
    /\ UNCHANGED <<now, pending, db, historical_efficiency,
                   total_energy_produced, last>>

\* optimizer.printMaintenanceAlerts(): a const method, it writes
\* PrintedAlerts(active_alerts) to the console and changes no member
printMaintenanceAlerts ==
    /\ Running
    /\ PrintedAlerts(active_alerts) \in Seq(Range(active_alerts))
    /\ UNCHANGED vars

\* optimizer.generateEnvironmentalReport(): a const method, it writes
\* ReportedImpact(total_energy_produced) and changes no member
generateEnvironmentalReport ==
    /\ Running
    /\ Len(ReportedImpact(total_energy_produced)) = 3
    /\ UNCHANGED vars

\* std::time(nullptr) advances
Tick(d) ==
    /\ Running
    /\ now + d - T0 <= MaxDays * 86400
    /\ d = SevenDays => now - T0 < MaxWeeks * SevenDays
    /\ d = 1 => \E r \in Range(db) \cup Range(pending) : r.timestamp = now
    /\ now' = now + d
    /\ UNCHANGED <<pending, db, active_alerts, historical_efficiency,
                   total_energy_produced, last>>

Next ==
    \/ \E p \in PowerInputs, t \in Temperatures : SolarReading(p[1], p[2], t)
    \/ storeReading
    \/ storeReadingThrows
    \/ printMaintenanceAlerts
    \/ generateEnvironmentalReport
    \/ \E d \in Ticks : Tick(d)

Spec == Init /\ [][Next]_vars

---------------------------------------------------------------------------
(* properties *)

\* a storeReading call has just returned (the clock has not advanced and no
\* reading has been constructed since); last holds its reading, the clock
\* value it ran at, the alerts, the points and the total before it, and the
\* alerts it added
Stored == last.op = "storeReading" /\ now = last.at /\ pending = <<>>

Points == Cardinality(DOMAIN historical_efficiency)

EmittedOf(t) == { i \in DOMAIN last.emitted : last.emitted[i].type = t }

IsActive(a) == \E j \in DOMAIN active_alerts : active_alerts[j] = a

\* the points the degradation rule averaged for the last reading
LastWindow ==
    { k \in DOMAIN historical_efficiency :
        /\ k >= last.reading.timestamp - 30 * 86400
        /\ k <= last.reading.timestamp }

\* the sum of power_produced over the readings of s
SumPower(s) == SumOver([i \in DOMAIN s |-> s[i].power_produced], DOMAIN s)

\* C1: an alert that was active before an evaluation run at wall-clock time
\* t is active after it exactly when t <= T + 7 * 86400, T the alert's
\* creation time: it is kept up to and at T + 7 days and removed after.
C1_RetentionBoundary ==
    Stored =>
        \A i \in DOMAIN last.alerts_before :
            LET a == last.alerts_before[i]
            IN  IsActive(a) <=> last.at <= a.timestamp + 7 * 86400

\* an evaluation run exactly 7 days after an alert's creation kept the alert
C1_Witness ==
    /\ Stored
    /\ \E i \in DOMAIN last.alerts_before :
           /\ last.at = last.alerts_before[i].timestamp + 7 * 86400
           /\ IsActive(last.alerts_before[i])

\* C2: at every wall-clock time, every alert of the active set is at most
\* 7 days old.
C2_ActiveWithinRetention ==
    \A i \in DOMAIN active_alerts :
        now - active_alerts[i].timestamp <= 7 * 86400

\* C3: an evaluation that leaves fewer than 30 points in the historical
\* store adds no PanelDegradation alert.
C3_InsufficientHistory ==
    Stored /\ Points < 30 => EmittedOf("PANEL_DEGRADATION") = {}

\* a reading at half the efficiency of the 28 other points was evaluated
\* with 29 points stored (its timestamp repeats an earlier one) and added
\* no alert
C3_Witness ==
    /\ Stored
    /\ Points = 29
    /\ Len(db) > Points
    /\ last.reading.power_produced = R(150)
    /\ last.reading.irradiance = R(1000)
    /\ EmittedOf("PANEL_DEGRADATION") = {}

\* C4: when 30 other points lie in the 30-day window of a reading and the
\* reading's efficiency is half of their average, the evaluation adds a
\* PanelDegradation alert of severity >= 10.
C4_HalfAverageSeverity ==
    Stored =>
        LET ts == last.reading.timestamp
            prev == LastWindow \ {ts}
            avgPrev == RDiv(SumOver(historical_efficiency, prev), R(30))
        IN  ( /\ Cardinality(prev) = 30
              /\ RGt(avgPrev, R(0))
              /\ historical_efficiency[ts] = RDiv(avgPrev, R(2)) )
            => \E i \in EmittedOf("PANEL_DEGRADATION") :
                   /\ ~IsNaN(last.emitted[i].severity)
                   /\ ~RGt(R(10), last.emitted[i].severity)

\* C5: with at least 30 points stored and a non-zero window average s / n,
\* a PanelDegradation alert is added exactly when 1 - c / (s / n) > 1/20
\* (c the reading's efficiency), that is when 20 * n * c < 19 * s for s > 0
\* and 20 * n * c > 19 * s for s < 0; no alert is added when every point of
\* the window has the reading's efficiency.
C5_StrictThreshold ==
    Stored /\ Points >= 30 =>
        LET c == historical_efficiency[last.reading.timestamp]
            n == Cardinality(LastWindow)
            s == SumOver(historical_efficiency, LastWindow)
            pd == EmittedOf("PANEL_DEGRADATION") # {}
        IN  /\ RGt(s, R(0)) => (pd <=> RGt(RMul(R(19), s), RMul(R(20 * n), c)))
            /\ RGt(R(0), s) => (pd <=> RGt(RMul(R(20 * n), c), RMul(R(19), s)))
            /\ (\A k \in LastWindow : historical_efficiency[k] = c) => ~pd

\* a reading whose degradation is exactly 1/20 was evaluated with at least
\* 30 points stored and added no alert
C5_Witness ==
    /\ Stored
    /\ Points >= 30
    /\ LET c == historical_efficiency[last.reading.timestamp]
           n == Cardinality(LastWindow)
           s == SumOver(historical_efficiency, LastWindow)
       IN  RGt(s, R(0)) /\ RMul(R(19), s) = RMul(R(20 * n), c)
    /\ EmittedOf("PANEL_DEGRADATION") = {}

\* C6: an evaluation adds a HighTemperature alert exactly when the
\* reading's temperature is above 70, one alert, of severity
\* (temperature - 70) / 10 below 80 and 1 from 80 on; 1/100 at 70.1.
C6_HighTemperature ==
    Stored =>
        LET t == last.reading.temperature
            ht == EmittedOf("HIGH_TEMPERATURE")
        IN  /\ ht # {} <=> t[1] > 70 * t[2]
            /\ Cardinality(ht) <= 1
            /\ \A i \in ht :
                   last.emitted[i].severity =
                       IF t[1] >= 80 * t[2] THEN <<1, 1>>
                       ELSE Norm(t[1] - 70 * t[2], 10 * t[2])
            /\ t = <<701, 10>> => \A i \in ht : last.emitted[i].severity = <<1, 100>>

\* a reading of 70.1 degrees added a HighTemperature alert of severity 1/100
C6_Witness ==
    /\ Stored
    /\ last.reading.temperature = <<701, 10>>
    /\ \E i \in EmittedOf("HIGH_TEMPERATURE") : last.emitted[i].severity = <<1, 100>>

\* C7: the ledger total after a storeReading call is at least the total
\* before it.
C7_TotalNonDecreasing ==
    Stored => ~RGt(last.total_before, total_energy_produced)

\* C8: the ledger total is the sum of power_produced / 1000 over the
\* readings stored, each storeReading call adding its reading's
\* power_produced / 1000; the CO2 savings are 0.4 times the total and the
\* tree equivalents 0.01 times; addEnergy(1000, 1.0) from zero gives the
\* total 1 and CO2 savings 0.4.
C8_LedgerAccumulation ==
    /\ total_energy_produced = RDiv(SumPower(db), R(1000))
    /\ Stored =>
           total_energy_produced =
               RAdd(last.total_before, RDiv(last.reading.power_produced, R(1000)))
    /\ RMul(R(5), getCO2Savings(total_energy_produced)) = RMul(R(2), total_energy_produced)
    /\ RMul(R(100), getTreeEquivalents(total_energy_produced)) = total_energy_produced
    /\ addEnergy(R(0), R(1000), R(1)) = R(1)
    /\ getCO2Savings(addEnergy(R(0), R(1000), R(1))) = <<2, 5>>

\* a second or later reading was stored, its evaluation returned before the
\* degradation test and added an alert, and the total is not zero
C8_Witness ==
    /\ Stored
    /\ Len(db) >= 2
    /\ Points < 30
    /\ Len(last.emitted) > 0
    /\ total_energy_produced # R(0)

\* C9: the efficiency recorded for a reading is 0 when its irradiance is
\* <= 0 and power_produced / ((irradiance / 1000) * 300), that is
\* 10 * power_produced / (3 * irradiance), otherwise; it is 1 for 300 W at
\* 1000 W/m2.
C9_Efficiency ==
    /\ calculate_efficiency(R(1000), R(300)) = R(1)
    /\ Stored =>
           LET p == last.reading.power_produced
               irr == last.reading.irradiance
               e == historical_efficiency[last.reading.timestamp]
           IN  IF irr[1] <= 0 THEN e = R(0)
               ELSE e = Norm(10 * p[1] * irr[2], 3 * p[2] * irr[1])

\* a reading with power but irradiance <= 0 was recorded with efficiency 0
C9_Witness ==
    /\ Stored
    /\ last.reading.irradiance[1] <= 0
    /\ last.reading.power_produced # R(0)
    /\ historical_efficiency[last.reading.timestamp] = R(0)

\* C10: whenever the degradation rule divides the current efficiency by
\* the window average (at least 30 points stored, a non-empty window), the
\* average is not zero.
C10_NoDivisionByZero ==
    Stored /\ Points >= 30 /\ LastWindow # {} =>
        SumOver(historical_efficiency, LastWindow) # R(0)

\* the last storeReading call threw
Threw == last.op = "storeReading threw"

\* C11: when db->storeReading throws, the exception leaves storeReading
\* (the run of main ends) and the ledger total, the active alerts and the
\* historical map are as they were before the call.
C11_PersistenceFailure ==
    Threw =>
        /\ ~Running
        /\ total_energy_produced = last.total_before
        /\ active_alerts = last.alerts_before
        /\ historical_efficiency = last.hist_before

\* a store threw on an optimizer that holds points, an alert and a total
C11_Witness ==
    /\ Threw
    /\ last.hist_before # <<>>
    /\ last.alerts_before # <<>>
    /\ last.total_before # R(0)

\* the efficiency of reading r, 10 * power / (3 * irradiance)
EfficiencyOf(r) ==
    IF r.irradiance[1] <= 0 THEN R(0)
    ELSE Norm(10 * r.power_produced[1] * r.irradiance[2],
              3 * r.power_produced[2] * r.irradiance[1])

\* C12: the historical map holds exactly one point per distinct timestamp
\* of the readings stored, and the point of the reading stored last has that
\* reading's efficiency; a storeReading call keeps every key, changes no
\* other point, and does not change the size when the timestamp was present.
C12_StoreKeying ==
    /\ DOMAIN historical_efficiency = { db[i].timestamp : i \in DOMAIN db }
    /\ db # <<>> =>
           historical_efficiency[db[Len(db)].timestamp] = EfficiencyOf(db[Len(db)])
    /\ Stored =>
           /\ DOMAIN last.hist_before \subseteq DOMAIN historical_efficiency
           /\ Points >= Cardinality(DOMAIN last.hist_before)
           /\ last.reading.timestamp \in DOMAIN last.hist_before
                  => Points = Cardinality(DOMAIN last.hist_before)
           /\ \A k \in DOMAIN last.hist_before :
                  k # last.reading.timestamp
                      => historical_efficiency[k] = last.hist_before[k]

\* a reading whose timestamp was present replaced the point's ratio, the
\* size unchanged and below 30
C12_Witness ==
    /\ Stored
    /\ last.reading.timestamp \in DOMAIN last.hist_before
    /\ historical_efficiency[last.reading.timestamp]
           # last.hist_before[last.reading.timestamp]
    /\ Points = Cardinality(DOMAIN last.hist_before)
    /\ Points < 30

\* the alerts of type t that were active before the last call and are not
\* older than 7 days at it, and those active now
UnexpiredBefore(t) ==
    { i \in DOMAIN last.alerts_before :
        /\ last.alerts_before[i].type = t
        /\ last.alerts_before[i].timestamp >= last.at - 7 * 86400 }

ActiveOf(t) == { j \in DOMAIN active_alerts : active_alerts[j].type = t }

\* C13: an evaluation of a reading above 70 degrees leaves one more
\* HighTemperature alert than the unexpired ones it found, and one that
\* adds a PanelDegradation alert one more of these, whatever was active.
C13_NoDeduplication ==
    Stored =>
        /\ RGt(last.reading.temperature, R(70))
               => Cardinality(ActiveOf("HIGH_TEMPERATURE"))
                      = Cardinality(UnexpiredBefore("HIGH_TEMPERATURE")) + 1
        /\ EmittedOf("PANEL_DEGRADATION") # {}
               => Cardinality(ActiveOf("PANEL_DEGRADATION"))
                      = Cardinality(UnexpiredBefore("PANEL_DEGRADATION")) + 1

\* a second reading above 70 degrees within the retention window left two
\* HighTemperature alerts
C13_Witness ==
    /\ Stored
    /\ RGt(last.reading.temperature, R(70))
    /\ UnexpiredBefore("HIGH_TEMPERATURE") # {}
    /\ Cardinality(ActiveOf("HIGH_TEMPERATURE")) = 2

\* C14: after an evaluation the active alerts are the prior alerts not
\* older than 7 days, unchanged and in their order, followed by the alerts
\* added, PanelDegradation before HighTemperature, each stamped with the
\* time of the evaluation; no alert older than 7 days is among them.
C14_AlertsImmutable ==
    Stored =>
        LET kept == SelectSeq(last.alerts_before,
                              LAMBDA a : a.timestamp >= last.at - 7 * 86400)
        IN  /\ Len(active_alerts) = Len(kept) + Len(last.emitted)
            /\ SubSeq(active_alerts, 1, Len(kept)) = kept
            /\ \A i \in DOMAIN last.emitted : last.emitted[i].timestamp = last.at
            /\ \A i, j \in DOMAIN last.emitted :
                   i < j => /\ last.emitted[i].type = "PANEL_DEGRADATION"
                            /\ last.emitted[j].type = "HIGH_TEMPERATURE"
            /\ \A j \in DOMAIN active_alerts :
                   active_alerts[j].timestamp >= last.at - 7 * 86400

\* an evaluation kept the two alerts of an earlier one, a PanelDegradation
\* alert followed by a HighTemperature alert
C14_Witness ==
    /\ Stored
    /\ Len(last.alerts_before) = 2
    /\ last.alerts_before[1].type = "PANEL_DEGRADATION"
    /\ last.alerts_before[2].type = "HIGH_TEMPERATURE"
    /\ active_alerts = last.alerts_before

\* C15: a step of printMaintenanceAlerts or generateEnvironmentalReport
\* leaves the active alerts, the historical map and the ledger total as
\* they were, and what the two write is the same after the step as before.
C15_ReadsDoNotMutate ==
    [][ printMaintenanceAlerts \/ generateEnvironmentalReport
            => /\ active_alerts' = active_alerts
               /\ historical_efficiency' = historical_efficiency
               /\ total_energy_produced' = total_energy_produced
               /\ PrintedAlerts(active_alerts') = PrintedAlerts(active_alerts)
               /\ ReportedImpact(total_energy_produced')
                      = ReportedImpact(total_energy_produced) ]_vars

\* the run can query the alerts while one of them is older than 7 days
C15_Witness ==
    /\ Running
    /\ \E i \in DOMAIN active_alerts : now - active_alerts[i].timestamp > 7 * 86400

\* s and t hold the same elements the same number of times
SameBag(s, t) ==
    /\ Len(s) = Len(t)
    /\ \A x \in Range(s) \cup Range(t) :
           Cardinality({ i \in DOMAIN s : s[i] = x })
               = Cardinality({ i \in DOMAIN t : t[i] = x })

\* the alerts of type t in the sequence s
AlertsOf(s, t) == SelectSeq(s, LAMBDA a : a.type = t)

\* C16: what a storeReading step leaves is what the evaluation with its two
\* rules in the opposite order gives, the same historical map and the same
\* alerts up to their order; the degradation rule adds the same alert for
\* every temperature of the reading, and the temperature rule the same
\* alert for every power and irradiance of it, whatever alerts it is given.
C16_RulesIndependent ==
    [][ storeReading =>
          LET r == pending[1]
          IN  /\ \E w \in performMaintenanceChecks_TempFirst(
                              r, historical_efficiency, active_alerts, now) :
                     w[1] = historical_efficiency' /\ SameBag(w[2], active_alerts')
              /\ \A t \in Temperatures :
                     \E pd \in check_panel_degradation([r EXCEPT !.temperature = t],
                                                       historical_efficiency, <<>>, now) :
                         pd[2] = AlertsOf(last'.emitted, "PANEL_DEGRADATION")
              /\ \A p \in PowerInputs :
                     AlertsOf(last'.emitted, "HIGH_TEMPERATURE")
                         \in check_temperature_issues(
                                 [r EXCEPT !.power_produced = p[1], !.irradiance = p[2]],
                                 <<>>, now) ]_vars

\* one evaluation added a PanelDegradation and a HighTemperature alert
C16_Witness ==
    /\ Stored
    /\ EmittedOf("PANEL_DEGRADATION") # {}
    /\ EmittedOf("HIGH_TEMPERATURE") # {}

\* C17: an evaluation removes exactly the prior alerts older than 7 days at
\* the wall-clock time it runs at, whatever the reading's timestamp and
\* whether or not a rule adds an alert, and the alerts it adds are active
\* when it ends.
C17_ExpiryFirst ==
    Stored =>
        /\ \A i \in DOMAIN last.alerts_before :
               IsActive(last.alerts_before[i])
                   <=> last.alerts_before[i].timestamp >= last.at - 7 * 86400
        /\ \A j \in DOMAIN active_alerts :
               active_alerts[j].timestamp >= last.at - 7 * 86400
        /\ \A i \in DOMAIN last.emitted : IsActive(last.emitted[i])

\* an evaluation that added no alert removed an alert older than 7 days
\* that is not older than 7 days at the reading's timestamp
C17_Witness ==
    /\ Stored
    /\ last.emitted = <<>>
    /\ \E i \in DOMAIN last.alerts_before :
           /\ ~IsActive(last.alerts_before[i])
           /\ last.alerts_before[i].timestamp >= last.reading.timestamp - 7 * 86400

\* C18: the window of the degradation rule holds the reading's own point,
\* so it is never empty; the severity of a PanelDegradation alert is
\* 20 * (s - n * c) / s for the sum s and the number n of the points of the
\* window with the reading's own and c the reading's efficiency; when the
\* reading's point is the only one in the window no alert is added.
C18_WindowHoldsCurrent ==
    Stored =>
        LET ts == last.reading.timestamp
            c == historical_efficiency[ts]
            n == Cardinality(LastWindow)
            s == SumOver(historical_efficiency, LastWindow)
        IN  /\ ts \in LastWindow
            /\ n >= 1
            /\ LastWindow = {ts} => s = c /\ EmittedOf("PANEL_DEGRADATION") = {}
            /\ \A i \in EmittedOf("PANEL_DEGRADATION") :
                   s # R(0) =>
                       last.emitted[i].severity
                           = RDiv(RMul(R(20), RSub(s, RMul(R(n), c))), s)

\* a reading of efficiency 1 was evaluated with at least 30 points stored,
\* all others older than 30 days, and added no alert
C18_Witness ==
    /\ Stored
    /\ Points >= 30
    /\ LastWindow = {last.reading.timestamp}
    /\ historical_efficiency[last.reading.timestamp] = R(1)
    /\ EmittedOf("PANEL_DEGRADATION") = {}

====
